---- MODULE Spec2Model ----
(***************************************************************************)
(* Model of the AI-Profiler skill pipeline:                                *)
(*   - SkillValidator (src/skill_validator.py): lexical coverage scoring   *)
(*     and the validate-and-refine controller;                             *)
(*   - AI_Profiler.run_workflow (src/main.py): extract, structure,         *)
(*     generate, serialize, validate.                                      *)
(* Text is a sequence of characters, each a short string.  A coverage     *)
(* value is the exact ratio <<numerator, denominator>> of the float the    *)
(* code returns.                                                           *)
(***************************************************************************)
EXTENDS Naturals, Integers, Sequences, FiniteSets, TLC

VARIABLES
    \* ---- SkillValidator.validate_and_refine_skills ----
    content_file,     \* the structured-content file read by load_structured_content
    threshold,        \* self.threshold
    max_retries_arg,  \* the max_retries argument of the call (None or a number)
    self_max_retries, \* self.max_retries
    max_retries,      \* local max_retries
    skills_data,      \* the initial candidate passed by the caller
    current_skills,   \* local current_skills
    retry_count,      \* local retry_count
    coverage,         \* local coverage of the last validate_skills call
    pc,               \* position of the controller
    result,           \* value returned by validate_and_refine_skills
    exit_via,         \* which exit of the function was taken
    events,           \* history: scorer calls, generative calls and delays, in order
    \* ---- SkillValidator.calculate_coverage called directly ----
    cov_content,      \* original_content argument
    cov_skills,       \* skills argument
    cov_out,          \* outcome of the call
    cov_pc,
    \* ---- AI_Profiler.run_workflow ----
    wf_pc,            \* position inside run_workflow
    wf_input,         \* the input document
    raw_text,         \* local raw_text
    structured_content, \* local structured_content
    wf_skills,        \* local skills_data
    artifact,         \* the YML file in output_dir
    wf_ret,           \* return value of run_workflow
    wf_events,        \* history: the stages that ran, in order
    \* ---- extraction of the payload from one reply of the backend ----
    ext_reply,        \* the reply: its text, and the form and payload it was built from
    ext_out,          \* outcome of each extractor applied to the reply
    \* ---- two AI_Profiler instances running run_workflow side by side ----
    par_dir,          \* self.mid_results_dir of each instance
    par_doc,          \* the raw text of each instance's document
    par_pc,           \* position of each instance inside run_workflow
    par_local,        \* each instance's local structured_content and skills_data
    par_files,        \* the files of each directory: who wrote them last, and what
    \* ---- OCR_client.extract_pdf_to_markdown ----
    ocr_input,        \* the pdf_path argument and self.api_token
    ocr_pc,           \* position inside extract_pdf_to_markdown
    ocr_polls,        \* number of status queries made
    ocr_reply,        \* what the remote service answered to the last status query
    ocr_out,          \* the function returned an output path, or raised
    ocr_events        \* history: requests and pauses, in order

ctl_vars == <<content_file, threshold, max_retries_arg, self_max_retries, max_retries,
              skills_data, current_skills, retry_count, coverage, pc, result, exit_via,
              events>>
cov_vars == <<cov_content, cov_skills, cov_out, cov_pc>>
wf_vars  == <<wf_pc, wf_input, raw_text, structured_content, wf_skills, artifact,
              wf_ret, wf_events>>
ext_vars == <<ext_reply, ext_out>>
par_vars == <<par_dir, par_doc, par_pc, par_local, par_files>>
ocr_vars == <<ocr_input, ocr_pc, ocr_polls, ocr_reply, ocr_out, ocr_events>>
vars     == <<ctl_vars, cov_vars, wf_vars, ext_vars, par_vars, ocr_vars>>

-----------------------------------------------------------------------------
(* Bounds of the model *)

\* a document has at most this many pages
MaxPages == 2
\* max_retries ranges over 0..MaxRetriesBound
MaxRetriesBound == 3
\* a directly scored content string is a concatenation of at most this many pieces
MaxContentPieces == 3
\* a directly scored skill list holds at most this many skills
MaxSkills == 2
\* the remote OCR task reports its end at the latest on this status query
MaxPolls == 3

-----------------------------------------------------------------------------
(* Characters and text *)

LowerLetters == {"a", "b", "c", "d", "e", "f", "g", "h", "i", "k", "l", "n", "o",
                 "p", "q", "r", "s", "t", "u", "x", "y"}
UpperLetters == {"A", "B", "D", "Q", "S"}
Digits       == {"0", "1", "2", "3", "4", "5", "6", "7", "8", "9"}
\* \w of the re module: letters, digits and the underscore
\* "DI" and "YE" stand for the two CJK characters of the page marker
CJK          == {"DI", "YE"}
WordChars    == LowerLetters \cup UpperLetters \cup Digits \cup CJK \cup {"_"}
\* \s of the re module
SpaceChars   == {" ", "\n", "\t"}

\* str.lower() on one character
LowerChar(c) ==
    IF c = "A" THEN "a" ELSE IF c = "B" THEN "b" ELSE IF c = "D" THEN "d"
    ELSE IF c = "Q" THEN "q" ELSE IF c = "S" THEN "s" ELSE c

Range(s) == {s[i] : i \in 1..Len(s)}

RECURSIVE Concat(_)
\* "".join(parts)
Concat(parts) == IF parts = <<>> THEN <<>> ELSE Head(parts) \o Concat(Tail(parts))

RECURSIVE JoinSpace(_)
\* " ".join(tokens)
JoinSpace(tokens) ==
    IF tokens = <<>> THEN <<>>
    ELSE IF Len(tokens) = 1 THEN tokens[1]
    ELSE tokens[1] \o <<" ">> \o JoinSpace(Tail(tokens))

RECURSIVE DropSpaces(_)
\* the text after its leading whitespace
DropSpaces(t) ==
    IF t = <<>> THEN <<>>
    ELSE IF Head(t) \in SpaceChars THEN DropSpaces(Tail(t)) ELSE t

\* re.sub(r'\s+', ' ', text): the first character of a whitespace run becomes
\* a space, the others are dropped
CollapseSpaces(t) ==
    LET InRun(i) == i > 1 /\ t[i] \in SpaceChars /\ t[i - 1] \in SpaceChars
        marked == [i \in 1..Len(t) |->
                     [c |-> IF t[i] \in SpaceChars THEN " " ELSE t[i], drop |-> InRun(i)]]
        kept == SelectSeq(marked, LAMBDA m : ~m.drop)
    IN  [i \in 1..Len(kept) |-> kept[i].c]

RECURSIVE DropTrailingSpaces(_)
DropTrailingSpaces(t) ==
    IF t = <<>> THEN <<>>
    ELSE IF t[Len(t)] \in SpaceChars THEN DropTrailingSpaces(SubSeq(t, 1, Len(t) - 1))
    ELSE t

\* str.strip()
Strip(t) == DropTrailingSpaces(DropSpaces(t))

RECURSIVE TakeWord(_)
\* the longest prefix without whitespace
TakeWord(t) ==
    IF t = <<>> THEN <<>>
    ELSE IF Head(t) \in SpaceChars THEN <<>>
    ELSE <<Head(t)>> \o TakeWord(Tail(t))

RECURSIVE Split(_)
\* str.split(): the maximal runs of non-whitespace characters
Split(t) ==
    LET u == DropSpaces(t)
        w == TakeWord(u)
    IN  IF u = <<>> THEN <<>>
        ELSE <<w>> \o Split(SubSeq(u, Len(w) + 1, Len(u)))

-----------------------------------------------------------------------------
(* SkillValidator.calculate_coverage *)

\* a token shorter than or as short as this is not a key phrase
MinKeyLen == 2

Lower(text) == [i \in 1..Len(text) |-> LowerChar(text[i])]

IsWordOrSpace(c) == c \in WordChars \/ c \in SpaceChars

\* re.sub(r'[^\w\s]', '', text)
StripPunct(text) == SelectSeq(text, IsWordOrSpace)

preprocess(text) == Strip(CollapseSpaces(StripPunct(Lower(text))))

tokenize(text) == Split(text)

IsKey(token) == Len(token) > MinKeyLen

\* unigrams, then bigrams, then trigrams of tokens longer than MinKeyLen
extract_key_phrases(skill) ==
    LET tokens == tokenize(preprocess(skill))
        n == Len(tokens)
        uni == SelectSeq(tokens, IsKey)
        BiAt(i) == IF IsKey(tokens[i]) /\ IsKey(tokens[i+1])
                   THEN <<JoinSpace(<<tokens[i], tokens[i+1]>>)>> ELSE <<>>
        TriAt(i) == IF IsKey(tokens[i]) /\ IsKey(tokens[i+1]) /\ IsKey(tokens[i+2])
                    THEN <<JoinSpace(<<tokens[i], tokens[i+1], tokens[i+2]>>)>> ELSE <<>>
        bi == Concat([i \in 1..(IF n > 1 THEN n - 1 ELSE 0) |-> BiAt(i)])
        tri == Concat([i \in 1..(IF n > 2 THEN n - 2 ELSE 0) |-> TriAt(i)])
    IN  uni \o bi \o tri

\* PhrasePositions with the positions of a multi-word match shifted by one
PhrasePositionsShifted(content_tokens, phrase) ==
    IF " " \notin Range(phrase)
    THEN {p \in 1..Len(content_tokens) : content_tokens[p] = phrase}
    ELSE LET phrase_tokens == Split(phrase)
             k == Len(phrase_tokens)
             n == Len(content_tokens)
             starts == {i \in 1..(IF n >= k THEN n - k + 1 ELSE 0) :
                           \A j \in 1..k : content_tokens[i + j - 1] = phrase_tokens[j]}
         IN  UNION {{i + j : j \in 1..k} : i \in starts}

\* PhrasePositions where a single word also marks the content tokens that
\* begin with it
PhrasePositionsPrefix(content_tokens, phrase) ==
    IF " " \notin Range(phrase)
    THEN {p \in 1..Len(content_tokens) :
             /\ Len(content_tokens[p]) >= Len(phrase)
             /\ SubSeq(content_tokens[p], 1, Len(phrase)) = phrase}
    ELSE LET phrase_tokens == Split(phrase)
             k == Len(phrase_tokens)
             n == Len(content_tokens)
             starts == {i \in 1..(IF n >= k THEN n - k + 1 ELSE 0) :
                           \A j \in 1..k : content_tokens[i + j - 1] = phrase_tokens[j]}
         IN  UNION {{i + j - 1 : j \in 1..k} : i \in starts}

\* the positions (1-based) of content_tokens that one phrase marks
PhrasePositions(content_tokens, phrase) ==
    IF " " \notin Range(phrase)
    THEN {p \in 1..Len(content_tokens) : content_tokens[p] = phrase}
    ELSE LET phrase_tokens == Split(phrase)
             k == Len(phrase_tokens)
             n == Len(content_tokens)
             starts == {i \in 1..(IF n >= k THEN n - k + 1 ELSE 0) :
                           \A j \in 1..k : content_tokens[i + j - 1] = phrase_tokens[j]}
         IN  UNION {{i + j - 1 : j \in 1..k} : i \in starts}

\* CoveredTokens that keeps only what the last skill marks
CoveredTokensLastOnly(content_tokens, skills) ==
    IF skills = <<>> THEN {}
    ELSE UNION {PhrasePositions(content_tokens, ph) :
                    ph \in Range(extract_key_phrases(skills[Len(skills)]))}

\* covered_tokens after the loop over skills
CoveredTokens(content_tokens, skills) ==
    UNION {UNION {PhrasePositions(content_tokens, ph) :
                      ph \in Range(extract_key_phrases(skills[s]))} :
           s \in 1..Len(skills)}

Zero == <<0, 1>>

\* a Python value passed as original_content: a str, or a list of str
Str(t)  == [type |-> "str", text |-> t, blocks |-> <<>>]
List(b) == [type |-> "list", text |-> <<>>, blocks |-> b]

\* not original_content
IsEmptyContent(c) == IF c.type = "str" THEN c.text = <<>> ELSE c.blocks = <<>>

Returned(v) == [raised |-> FALSE, value |-> v]
Raised      == [raised |-> TRUE, value |-> Zero]

\* calculate_coverage without the total_tokens == 0 return: the division
\* raises ZeroDivisionError for a content without tokens
calculate_coverage_unguarded(original_content, skills) ==
    IF IsEmptyContent(original_content) \/ skills = <<>> THEN Returned(Zero)
    ELSE IF original_content.type # "str" THEN Raised
    ELSE LET content_tokens == tokenize(preprocess(original_content.text))
             total_tokens == Len(content_tokens)
         IN  IF total_tokens = 0 THEN Raised
             ELSE Returned(<<Cardinality(CoveredTokens(content_tokens, skills)),
                             total_tokens>>)

\* a list has no lower(): preprocess raises AttributeError on it
calculate_coverage(original_content, skills) ==
    IF IsEmptyContent(original_content) \/ skills = <<>> THEN Returned(Zero)
    ELSE IF original_content.type # "str" THEN Raised
    ELSE LET content_tokens == tokenize(preprocess(original_content.text))
             total_tokens == Len(content_tokens)
         IN  IF total_tokens = 0 THEN Returned(Zero)
             ELSE Returned(<<Cardinality(CoveredTokens(content_tokens, skills)),
                             total_tokens>>)

\* a >= b for ratios with positive denominators
RatioGE(a, b) == a[1] * b[2] >= b[1] * a[2]

-----------------------------------------------------------------------------
(* Inputs of a direct calculate_coverage call *)


T_abc     == <<"a", "b", "c">>
T_def     == <<"d", "e", "f">>
T_xy      == <<"x", "y">>
T_space   == <<" ">>
T_DefDot  == <<"D", "e", "f", ".">>
T_abc_def == <<"a", "b", "c", " ", "d", "e", "f", " ">>

Pieces == {T_abc, T_space, T_DefDot, T_xy, T_abc_def}

SeqsUpTo(S, n) == UNION {[1..k -> S] : k \in 0..n}

ContentStrings == {Concat(ps) : ps \in SeqsUpTo(Pieces, MaxContentPieces)}

SkillTexts ==
    { T_abc,
      <<"0", ":", " ", "A", "b", "c", " ", "d", "e", "f">>,
      <<"a", "b", "c", " ", "d", "e", "f", " ", "a", "b", "c">>,
      <<"x", "y", " ", "d", "e", "f">>,
      <<"d", "e", "f", ".">> }

SkillLists == SeqsUpTo(SkillTexts, MaxSkills)

\* the scenario of three blocks about stacks and queues and two skills
B_stacks ==
    <<"S", "t", "a", "c", "k", "s", " ", "s", "u", "p", "p", "o", "r", "t",
      " ", "p", "u", "s", "h", " ", "a", "n", "d", " ", "p", "o", "p", ".">>

B_queues ==
    <<"Q", "u", "e", "u", "e", "s", " ", "s", "u", "p", "p", "o", "r", "t",
      " ", "e", "n", "q", "u", "e", "u", "e", " ", "a", "n", "d", " ", "d",
      "e", "q", "u", "e", "u", "e", ".">>

B_both ==
    <<"B", "o", "t", "h", " ", "a", "r", "e", " ", "l", "i", "n", "e", "a",
      "r", " ", "d", "a", "t", "a", " ", "s", "t", "r", "u", "c", "t", "u",
      "r", "e", "s", ".">>

S_stack ==
    <<"0", ":", " ", "a", "b", "l", "e", " ", "t", "o", " ", "d", "e", "f",
      "i", "n", "e", " ", "a", " ", "s", "t", "a", "c", "k">>

S_queue ==
    <<"1", ":", " ", "a", "b", "l", "e", " ", "t", "o", " ", "d", "e", "f",
      "i", "n", "e", " ", "a", " ", "q", "u", "e", "u", "e">>

ExampleBlocks  == <<B_stacks, B_queues, B_both>>
ExampleContent == JoinSpace(ExampleBlocks)
ExampleSkills  == <<S_stack, S_queue>>

NoOutcome == [raised |-> FALSE, value |-> <<0, 0>>]

CovInit ==
    /\ cov_content \in {Str(t) : t \in ContentStrings \cup {ExampleContent}}
                      \cup {List(<<>>), List(<<T_abc>>), List(ExampleBlocks)}
    /\ cov_skills \in SkillLists \cup {ExampleSkills}
    /\ cov_out = NoOutcome
    /\ cov_pc = "call"

CovIdle ==
    /\ cov_content = Str(<<>>)
    /\ cov_skills = <<>>
    /\ cov_out = NoOutcome
    /\ cov_pc = "idle"

\* one call calculate_coverage(cov_content, cov_skills)
CalcCoverage ==
    /\ cov_pc = "call"
    /\ cov_out' = calculate_coverage(cov_content, cov_skills)
    /\ cov_pc' = "done"
    /\ UNCHANGED <<cov_content, cov_skills>>
    /\ UNCHANGED <<ctl_vars, wf_vars, ext_vars, par_vars, ocr_vars>>

-----------------------------------------------------------------------------
(* Candidates: the JSON values a generation can yield *)

\* one element of the "skills" list of a candidate: a string, a mapping
\* (its entries in order), or a value of another type
SkillStr(t)  == [type |-> "str", text |-> t, entries |-> <<>>]
SkillDict(e) == [type |-> "dict", text |-> <<>>, entries |-> e]
SkillOther   == [type |-> "other", text |-> <<>>, entries |-> <<>>]
Entry(k, t)  == [id |-> k, desc |-> t]
\* a mapping key: the integer n, or the string of its digits
IdInt(n) == [str |-> FALSE, n |-> n]
IdStr(n) == [str |-> TRUE, n |-> n]

\* one group: the keys it has, and its "skills" value
Group(name, keys, refs_is_list, refs) ==
    [id |-> name, keys |-> keys, refs_is_list |-> refs_is_list, refs |-> refs]
GroupKeys == {"type", "target", "skills"}

\* the "groups" value: a mapping or an array of groups
NoGroups        == [kind |-> "none", items |-> <<>>]
GroupsDict(gs)  == [kind |-> "dict", items |-> gs]
GroupsList(gs)  == [kind |-> "list", items |-> gs]

\* a JSON value: null, an object (with the keys it has), or an array
Dict(keys, skills, groups) ==
    [kind |-> "dict", keys |-> keys, skills |-> skills, groups |-> groups]
NoneValue    == [kind |-> "none", keys |-> {}, skills |-> <<>>, groups |-> NoGroups]
ListValue    == [kind |-> "list", keys |-> {}, skills |-> <<>>, groups |-> NoGroups]
EmptyDict    == Dict({}, <<>>, NoGroups)

T_0_abc == <<"0", ":", " ", "a", "b", "c">>
T_1_def == <<"1", ":", " ", "d", "e", "f">>
T_2_xy  == <<"2", ":", " ", "x", "y">>
T_x_def == <<"x", ":", "d", "e", "f">>

G_ok      == Group("G1", GroupKeys, TRUE, <<0, 1, 2>>)
G_short   == Group("G2", GroupKeys, TRUE, <<0, 7>>)
G_notype  == Group("G3", {"target", "skills"}, TRUE, <<0, 1, 2>>)
G_refsstr == Group("G4", GroupKeys, FALSE, <<>>)

CandNoSkills == Dict({"groups"}, <<>>, GroupsDict(<<G_ok>>))
CandA        == Dict({"skills", "groups"}, <<SkillStr(T_0_abc)>>, GroupsList(<<G_ok>>))
CandB        == Dict({"skills", "groups"},
                     <<SkillDict(<<Entry(IdStr(0), T_def)>>), SkillOther>>, GroupsDict(<<G_short>>))
CandGood     == Dict({"skills", "groups"},
                     <<SkillStr(T_0_abc), SkillStr(T_1_def), SkillStr(T_2_xy)>>,
                     GroupsDict(<<G_ok>>))
CandPlain    == Dict({"skills", "groups"},
                     <<SkillStr(T_abc), SkillStr(T_x_def), SkillStr(T_0_abc)>>,
                     GroupsDict(<<G_ok, G_short>>))
CandNoGroups == Dict({"skills"}, <<SkillStr(T_0_abc)>>, NoGroups)
CandBadGroup == Dict({"skills", "groups"},
                     <<SkillDict(<<Entry(IdStr(0), T_abc), Entry(IdStr(1), T_def)>>)>>,
                     GroupsDict(<<G_notype, G_refsstr>>))

\* Truthy as "is not None": an empty payload counts as a result
TruthyNotNone(c) == c.kind # "none"

\* Python truth value of a candidate (the list value stands for a non-empty array)
Truthy(c) == c.kind # "none" /\ ~(c.kind = "dict" /\ c.keys = {})

-----------------------------------------------------------------------------
(* SkillValidator: loading and scoring *)

\* the file: readable JSON list of blocks with a content key, or anything else
ContentFiles ==
    { [ok |-> FALSE, blocks |-> <<>>],
      [ok |-> TRUE,  blocks |-> <<>>],
      [ok |-> TRUE,  blocks |-> <<T_abc>>],
      [ok |-> TRUE,  blocks |-> <<T_abc_def, T_xy>>] }

\* returns the list of block contents, or "" when reading or indexing fails
load_structured_content(file) ==
    IF file.ok THEN List(file.blocks) ELSE Str(<<>>)

\* what one element of the skills list adds to skills_list
SkillValues(sk) ==
    IF sk.type = "str" THEN <<sk.text>>
    ELSE IF sk.type = "dict" THEN [j \in 1..Len(sk.entries) |-> sk.entries[j].desc]
    ELSE <<>>

\* the skill descriptions of a candidate; [] when .get fails or finds no skills
load_skills(cand) ==
    IF cand.kind # "dict" \/ "skills" \notin cand.keys THEN <<>>
    ELSE Concat([i \in 1..Len(cand.skills) |-> SkillValues(cand.skills[i])])

\* is_valid_for with > in place of >=
is_valid_strict(cov, thr) == ~RatioGE(thr, cov)

\* is_valid = coverage >= self.threshold
is_valid_for(cov, thr) == RatioGE(cov, thr)

\* [raised, is_valid, coverage] of validate_skills(path, cand)
validate_skills(file, cand, thr) ==
    LET out == calculate_coverage(load_structured_content(file), load_skills(cand))
    IN  [raised |-> out.raised,
         is_valid |-> ~out.raised /\ is_valid_for(out.value, thr),
         coverage |-> out.value]

\* threshold of SkillValidator() made without arguments
DefaultThreshold == <<9, 10>>

\* the module-level get_coverage_metrics: validate_skills of a default validator
get_coverage_metrics(file, cand) ==
    LET v == validate_skills(file, cand, DefaultThreshold)
    IN  [raised |-> v.raised, coverage |-> v.coverage, is_valid |-> v.is_valid,
         threshold |-> DefaultThreshold]

-----------------------------------------------------------------------------
(* SkillValidator.call_llm_for_refinement *)

\* what the backend does on one call: key present or not, the request succeeds
\* or raises, and the reply text: a JSON payload (or text that is no JSON)
\* bare, inside a ```json fence, inside a plain ``` fence, or inside prose
ReplyForms == {"bare", "fenced_json", "fenced_plain", "prose"}
Payloads   == {NoneValue, EmptyDict, ListValue, CandNoSkills, CandA, CandB}

LLMReplies ==
    [api_key : BOOLEAN, api_ok : BOOLEAN, form : ReplyForms,
     is_json : BOOLEAN, payload : Payloads]

\* re.search(r'```json\s*(.*?)\s*```') finds the payload of a ```json fence;
\* otherwise the whole reply is given to json.loads
call_llm_for_refinement(reply) ==
    IF ~reply.api_key THEN NoneValue
    ELSE IF ~reply.api_ok THEN NoneValue
    ELSE IF reply.form \in {"bare", "fenced_json"} /\ reply.is_json THEN reply.payload
    ELSE NoneValue

-----------------------------------------------------------------------------
(* SkillValidator.validate_and_refine_skills *)

Thresholds == {<<0, 1>>, <<1, 2>>, <<9, 10>>}

NoArg  == [none |-> TRUE, v |-> 0]
Arg(n) == [none |-> FALSE, v |-> n]

\* effective_max_retries written as "max_retries or self.max_retries"
effective_or_default(arg, self_mr) ==
    IF arg.none \/ arg.v = 0 THEN self_mr ELSE arg.v

\* if max_retries is None: max_retries = self.max_retries
effective_max_retries(arg, self_mr) ==
    IF arg.none THEN self_mr ELSE arg.v

\* loop_condition with <= in place of <
loop_condition_le(rc, mr) == rc <= mr

\* while retry_count < max_retries
loop_condition(rc, mr) == rc < mr

\* next_retry_count that leaves the counter as it is
next_retry_count_same(rc) == rc

\* retry_count += 1
next_retry_count(rc) == rc + 1

\* seconds of the pause after a successful refinement
SleepSeconds == 2

ScoreEvent(cand, cov) == [op |-> "score", cand |-> cand, cov |-> cov]
ScoreRaised(cand)     == [op |-> "score_raised", cand |-> cand, cov |-> Zero]
CallEvent(cand)       == [op |-> "call", cand |-> cand, cov |-> Zero]
SleepEvent(seconds)   == [op |-> "sleep", cand |-> NoneValue, cov |-> <<seconds, 1>>]

\* sleep that does not pause
sleep_skipped(ev, seconds) == ev

\* time.sleep(seconds), recorded in the history ev
sleep(ev, seconds) == Append(ev, SleepEvent(seconds))

CtlInit ==
    /\ content_file \in ContentFiles
    /\ threshold \in Thresholds
    /\ max_retries_arg \in {NoArg} \cup {Arg(n) : n \in 0..MaxRetriesBound}
    /\ self_max_retries \in 0..MaxRetriesBound
    /\ max_retries = effective_max_retries(max_retries_arg, self_max_retries)
    /\ skills_data \in {CandA, CandB, CandNoSkills}
    /\ current_skills = skills_data
    /\ retry_count = 0
    /\ coverage = Zero
    /\ pc = "while"
    /\ result = NoneValue
    /\ exit_via = "none"
    /\ events = <<>>

CtlIdle ==
    /\ content_file = [ok |-> FALSE, blocks |-> <<>>]
    /\ threshold = Zero
    /\ max_retries_arg = NoArg
    /\ self_max_retries = 0
    /\ max_retries = 0
    /\ skills_data = NoneValue
    /\ current_skills = NoneValue
    /\ retry_count = 0
    /\ coverage = Zero
    /\ pc = "idle"
    /\ result = NoneValue
    /\ exit_via = "none"
    /\ events = <<>>

CtlConst ==
    UNCHANGED <<content_file, threshold, max_retries_arg, self_max_retries,
                max_retries, skills_data>>

\* ReturnCurrent returning the caller's skills_data
ReturnInitial(via) ==
    /\ pc' = "returned"
    /\ result' = skills_data
    /\ exit_via' = via

\* return current_skills
ReturnCurrent(via) ==
    /\ pc' = "returned"
    /\ result' = current_skills
    /\ exit_via' = via

\* one loop iteration up to the generative call: validate_skills, the return
\* on success, retry_count += 1 and the check against max_retries
Validate ==
    /\ pc = "while"
    /\ loop_condition(retry_count, max_retries)
    /\ LET v == validate_skills(content_file, current_skills, threshold)
       IN  IF v.raised
           THEN /\ pc' = "raised"
                /\ exit_via' = "raised"
                /\ events' = Append(events, ScoreRaised(current_skills))
                /\ UNCHANGED <<result, retry_count, coverage>>
           ELSE /\ events' = Append(events, ScoreEvent(current_skills, v.coverage))
                /\ coverage' = v.coverage
                /\ IF v.is_valid
                   THEN /\ ReturnCurrent("accepted")
                        /\ UNCHANGED retry_count
                   ELSE /\ retry_count' = next_retry_count(retry_count)
                        /\ IF retry_count' > max_retries
                           THEN ReturnCurrent("exhausted")
                           ELSE /\ pc' = "refine"
                                /\ UNCHANGED <<result, exit_via>>
    /\ UNCHANGED current_skills
    /\ CtlConst
    /\ UNCHANGED <<cov_vars, wf_vars, ext_vars, par_vars, ocr_vars>>

\* the rest of the iteration: call_llm_for_refinement, then either the update
\* of current_skills followed by time.sleep(2), or the break and the return
Refine ==
    /\ pc = "refine"
    /\ \E reply \in LLMReplies :
          LET refined_skills == call_llm_for_refinement(reply)
          IN  IF Truthy(refined_skills)
              THEN /\ current_skills' = refined_skills
                   /\ events' = sleep(Append(events, CallEvent(refined_skills)),
                                      SleepSeconds)
                   /\ pc' = "while"
                   /\ UNCHANGED <<result, exit_via>>
              ELSE /\ events' = Append(events, CallEvent(refined_skills))
                   /\ ReturnCurrent("gen_failed")
                   /\ UNCHANGED current_skills
    /\ UNCHANGED <<retry_count, coverage>>
    /\ CtlConst
    /\ UNCHANGED <<cov_vars, wf_vars, ext_vars, par_vars, ocr_vars>>

\* the while condition is false: return current_skills
LoopExit ==
    /\ pc = "while"
    /\ ~loop_condition(retry_count, max_retries)
    /\ ReturnCurrent("exhausted")
    /\ UNCHANGED <<current_skills, retry_count, coverage, events>>
    /\ CtlConst
    /\ UNCHANGED <<cov_vars, wf_vars, ext_vars, par_vars, ocr_vars>>

-----------------------------------------------------------------------------
(* AI_Profiler: extraction (src/main.py) *)

DigitChar == <<"0", "1", "2", "3", "4", "5", "6", "7", "8", "9">>

RECURSIVE DigitsOf(_)
\* str(n) for a natural number
DigitsOf(n) ==
    IF n < 10 THEN <<DigitChar[n + 1]>>
    ELSE DigitsOf(n \div 10) \o <<DigitChar[(n % 10) + 1]>>

\* f"\n=== {n} ===\n" with the two CJK characters around the number
PageMarker(n) ==
    <<"\n", "=", "=", "=", " ", "DI">> \o DigitsOf(n) \o <<"YE", " ", "=", "=", "=", "\n">>

PageTexts == {<<>>, T_abc, T_space, <<"a", "b", "c", "\n", "x", "y">>}

Documents ==
    [ext : {".pdf", ".pptx", ".txt"}, ok : BOOLEAN, pptx_module : BOOLEAN,
     pages : SeqsUpTo(PageTexts, MaxPages)]

\* a page adds its marker and text only when its text is not empty
extract_from_pdf(doc) ==
    IF ~doc.ok THEN <<>>
    ELSE Concat([i \in 1..Len(doc.pages) |->
                    IF doc.pages[i] # <<>> THEN PageMarker(i) \o doc.pages[i] ELSE <<>>])

\* every slide adds its marker; its shape adds text + "\n" when not blank
extract_from_pptx(doc) ==
    IF ~doc.ok THEN <<>>
    ELSE Concat([i \in 1..Len(doc.pages) |->
                    PageMarker(i) \o (IF Strip(doc.pages[i]) # <<>>
                                      THEN doc.pages[i] \o <<"\n">> ELSE <<>>)])

\* [none, text]: the ImportError branch falls off the end and returns None
extract_text_from_ppt(doc) ==
    IF doc.ext = ".pdf" THEN [none |-> FALSE, text |-> extract_from_pdf(doc)]
    ELSE IF doc.ext = ".pptx"
         THEN IF doc.pptx_module THEN [none |-> FALSE, text |-> extract_from_pptx(doc)]
              ELSE [none |-> TRUE, text |-> <<>>]
    ELSE [none |-> FALSE, text |-> <<>>]

-----------------------------------------------------------------------------
(* AI_Profiler.clean_and_structure_content *)

\* length of the whitespace run at the head of t
SpaceRunLen(t) == Len(t) - Len(DropSpaces(t))

\* the last index <= n of t holding "\n", or 0
LastNewline(t, n) ==
    LET c == {i \in 1..n : t[i] = "\n"}
    IN  IF c = {} THEN 0 ELSE CHOOSE i \in c : \A j \in c : j <= i

RECURSIVE SquashBlankLines(_)
\* re.sub(r'\n\s*\n', '\n\n', text)
SquashBlankLines(t) ==
    IF t = <<>> THEN <<>>
    ELSE IF Head(t) = "\n" /\ LastNewline(t, SpaceRunLen(t)) > 1
         THEN <<"\n", "\n">>
              \o SquashBlankLines(SubSeq(t, LastNewline(t, SpaceRunLen(t)) + 1, Len(t)))
         ELSE <<Head(t)>> \o SquashBlankLines(Tail(t))

RECURSIVE DigitRunLen(_)
DigitRunLen(t) ==
    IF t = <<>> THEN 0
    ELSE IF Head(t) \in Digits THEN 1 + DigitRunLen(Tail(t)) ELSE 0

MarkerHead == <<"=", "=", "=", " ", "DI">>
MarkerTail == <<"YE", " ", "=", "=", "=">>

IsPrefix(p, t) == Len(p) <= Len(t) /\ SubSeq(t, 1, Len(p)) = p

\* length of the match of the page-marker pattern at the head of t, or 0
MarkerLen(t) ==
    IF ~IsPrefix(MarkerHead, t) THEN 0
    ELSE LET rest == SubSeq(t, Len(MarkerHead) + 1, Len(t))
             d == DigitRunLen(rest)
         IN  IF d > 0 /\ IsPrefix(MarkerTail, SubSeq(rest, d + 1, Len(rest)))
             THEN Len(MarkerHead) + d + Len(MarkerTail) ELSE 0

RECURSIVE SplitPages(_, _)
\* re.split on the page-marker pattern; acc is the segment read so far
SplitPages(t, acc) ==
    IF t = <<>> THEN <<acc>>
    ELSE IF MarkerLen(t) > 0
         THEN <<acc>> \o SplitPages(SubSeq(t, MarkerLen(t) + 1, Len(t)), <<>>)
         ELSE SplitPages(Tail(t), Append(acc, Head(t)))

\* clean_and_structure_content that numbers the segments before it drops the
\* empty ones
clean_and_structure_content_numbered_early(text) ==
    LET pages == SplitPages(SquashBlankLines(CollapseSpaces(text)), <<>>)
        numbered == [i \in 1..Len(pages) |->
                        [page_number |-> i, content |-> Strip(pages[i])]]
    IN  SelectSeq(numbered, LAMBDA b : b.content # <<>>)

clean_and_structure_content(text) ==
    LET pages == SplitPages(SquashBlankLines(CollapseSpaces(text)), <<>>)
        stripped == [i \in 1..Len(pages) |-> Strip(pages[i])]
        kept == SelectSeq(stripped, LAMBDA pg : pg # <<>>)
    IN  [i \in 1..Len(kept) |-> [page_number |-> i, content |-> kept[i]]]

-----------------------------------------------------------------------------
(* AI_Profiler.generate_skills *)

WfPayloads ==
    {NoneValue, EmptyDict, ListValue, CandNoSkills, CandA, CandB, CandGood,
     CandPlain, CandNoGroups, CandBadGroup}

WfReplies ==
    [api_ok : BOOLEAN, form : ReplyForms, is_json : BOOLEAN, payload : WfPayloads]

\* a leading ```json or ``` fence with a trailing ``` is cut off, then
\* json.loads; every exception inside the try block yields None
generate_skills(reply, io_ok) ==
    IF ~reply.api_ok THEN NoneValue
    ELSE IF reply.form \in {"bare", "fenced_json", "fenced_plain"} /\ reply.is_json
         THEN IF io_ok THEN reply.payload ELSE NoneValue
    ELSE NoneValue

-----------------------------------------------------------------------------
(* AI_Profiler.convert_to_yml *)

IndexOf(t, c) == CHOOSE i \in 1..Len(t) : t[i] = c /\ \A j \in 1..(i - 1) : t[j] # c

DigitValue(c) == CHOOSE d \in 0..9 : DigitChar[d + 1] = c

RECURSIVE IntOf(_)
\* int(t) for a text of decimal digits
IntOf(t) ==
    IF Len(t) = 1 THEN DigitValue(t[1])
    ELSE 10 * IntOf(SubSeq(t, 1, Len(t) - 1)) + DigitValue(t[Len(t)])

IsDigits(t) == t # <<>> /\ \A i \in 1..Len(t) : t[i] \in Digits

\* YmlSkill that gives a mapping a new key, its position
YmlSkillRekeyed(idx, skill) ==
    IF skill.type = "dict"
    THEN [j \in 1..Len(skill.entries) |-> Entry(IdInt(idx), skill.entries[j].desc)]
    ELSE IF skill.type = "str" /\ ":" \in Range(skill.text)
         THEN LET k == IndexOf(skill.text, ":")
                  head == Strip(SubSeq(skill.text, 1, k - 1))
                  desc == Strip(SubSeq(skill.text, k + 1, Len(skill.text)))
              IN  IF IsDigits(head) THEN <<Entry(IdInt(IntOf(head)), desc)>>
                  ELSE <<Entry(IdInt(idx), skill.text)>>
    ELSE <<Entry(IdInt(idx), skill.text)>>

\* the mapping appended to yml_data["skills"] for the skill at 0-based idx
YmlSkill(idx, skill) ==
    IF skill.type = "dict" THEN skill.entries
    ELSE IF skill.type = "str" /\ ":" \in Range(skill.text)
         THEN LET k == IndexOf(skill.text, ":")
                  head == Strip(SubSeq(skill.text, 1, k - 1))
                  desc == Strip(SubSeq(skill.text, k + 1, Len(skill.text)))
              IN  IF IsDigits(head) THEN <<Entry(IdInt(IntOf(head)), desc)>>
                  ELSE <<Entry(IdInt(idx), skill.text)>>
    ELSE <<Entry(IdInt(idx), skill.text)>>

NoArtifact == [written |-> FALSE, skills |-> <<>>, groups |-> NoGroups]

\* [raised, yml]: subscripting None or an array, or a missing key, raises
\* convert_to_yml that writes an artifact without entries when the data has
\* no skills or groups to read
convert_to_yml_lenient(data, io_ok) ==
    IF ~io_ok THEN [raised |-> TRUE, yml |-> NoArtifact]
    ELSE IF data.kind # "dict" \/ "skills" \notin data.keys \/ "groups" \notin data.keys
    THEN [raised |-> FALSE,
          yml |-> [written |-> TRUE, skills |-> <<>>, groups |-> GroupsDict(<<>>)]]
    ELSE [raised |-> FALSE,
          yml |-> [written |-> TRUE,
                   skills |-> [i \in 1..Len(data.skills) |-> YmlSkill(i - 1, data.skills[i])],
                   groups |-> data.groups]]

convert_to_yml(data, io_ok) ==
    IF data.kind # "dict" \/ "skills" \notin data.keys \/ "groups" \notin data.keys
    THEN [raised |-> TRUE, yml |-> NoArtifact]
    ELSE IF ~io_ok THEN [raised |-> TRUE, yml |-> NoArtifact]
    ELSE [raised |-> FALSE,
          yml |-> [written |-> TRUE,
                   skills |-> [i \in 1..Len(data.skills) |-> YmlSkill(i - 1, data.skills[i])],
                   groups |-> data.groups]]

-----------------------------------------------------------------------------
(* AI_Profiler.validate_yml_structure *)

\* validate_yml_structure without the check that groups is a mapping
validate_yml_structure_any_groups(yml) ==
    /\ yml.written
    /\ \A i \in 1..Len(yml.skills) : Len(yml.skills[i]) = 1
    /\ \A g \in 1..Len(yml.groups.items) :
          /\ GroupKeys \subseteq yml.groups.items[g].keys
          /\ yml.groups.items[g].refs_is_list

validate_yml_structure(yml) ==
    /\ yml.written
    /\ \A i \in 1..Len(yml.skills) : Len(yml.skills[i]) = 1
    /\ yml.groups.kind = "dict"
    /\ \A g \in 1..Len(yml.groups.items) :
          /\ GroupKeys \subseteq yml.groups.items[g].keys
          /\ yml.groups.items[g].refs_is_list

\* yaml.safe_load of a written artifact: every skills element is a mapping
safe_load(yml) ==
    Dict({"skills", "groups"},
         [i \in 1..Len(yml.skills) |-> SkillDict(yml.skills[i])],
         yml.groups)

-----------------------------------------------------------------------------
(* AI_Profiler.run_workflow *)

WfInit ==
    /\ wf_pc = "extract"
    /\ wf_input \in Documents
    /\ raw_text = <<>>
    /\ structured_content = <<>>
    /\ wf_skills = NoneValue
    /\ artifact = NoArtifact
    /\ wf_ret = "none"
    /\ wf_events = <<>>

WfIdle ==
    /\ wf_pc = "idle"
    /\ wf_input = [ext |-> ".txt", ok |-> FALSE, pptx_module |-> FALSE, pages |-> <<>>]
    /\ raw_text = <<>>
    /\ structured_content = <<>>
    /\ wf_skills = NoneValue
    /\ artifact = NoArtifact
    /\ wf_ret = "none"
    /\ wf_events = <<>>

\* return True / return False
WfReturn(v) ==
    /\ wf_pc' = "done"
    /\ wf_ret' = v

\* WfExtract without the test of raw_text
WfExtractUnchecked ==
    /\ wf_pc = "extract"
    /\ raw_text' = extract_text_from_ppt(wf_input).text
    /\ wf_pc' = "structure"
    /\ wf_events' = Append(wf_events, "extract")
    /\ UNCHANGED <<wf_input, structured_content, wf_skills, artifact, wf_ret>>
    /\ UNCHANGED <<ctl_vars, cov_vars, ext_vars, par_vars, ocr_vars>>

\* raw_text = self.extract_text_from_ppt(input_file); if not raw_text: return False
WfExtract ==
    /\ wf_pc = "extract"
    /\ LET r == extract_text_from_ppt(wf_input)
       IN  /\ raw_text' = r.text
           /\ IF r.none \/ r.text = <<>>
              THEN WfReturn("False")
              ELSE /\ wf_pc' = "structure"
                   /\ UNCHANGED wf_ret
    /\ wf_events' = Append(wf_events, "extract")
    /\ UNCHANGED <<wf_input, structured_content, wf_skills, artifact>>
    /\ UNCHANGED <<ctl_vars, cov_vars, ext_vars, par_vars, ocr_vars>>

\* structured_content = self.clean_and_structure_content(raw_text);
\* a failing write of the intermediate file raises into run_workflow's except
WfStructure ==
    /\ wf_pc = "structure"
    /\ \E io_ok \in BOOLEAN :
          IF io_ok
          THEN /\ structured_content' = clean_and_structure_content(raw_text)
               /\ wf_pc' = "generate"
               /\ UNCHANGED wf_ret
          ELSE /\ WfReturn("False")
               /\ UNCHANGED structured_content
    /\ wf_events' = Append(wf_events, "structure")
    /\ UNCHANGED <<wf_input, raw_text, wf_skills, artifact>>
    /\ UNCHANGED <<ctl_vars, cov_vars, ext_vars, par_vars, ocr_vars>>

\* skills_data = self.generate_skills(structured_content); the import of
\* config stands before the try block, so its failure raises; past it the
\* request to the backend is made ("call"), whatever structured_content is
WfGenerate ==
    /\ wf_pc = "generate"
    /\ \E config_ok \in BOOLEAN, io_ok \in BOOLEAN, reply \in WfReplies :
          IF config_ok
          THEN /\ wf_skills' = generate_skills(reply, io_ok)
               /\ wf_pc' = "convert"
               /\ wf_events' = wf_events \o <<"generate", "call">>
               /\ UNCHANGED wf_ret
          ELSE /\ WfReturn("False")
               /\ wf_events' = Append(wf_events, "generate")
               /\ UNCHANGED wf_skills
    /\ UNCHANGED <<wf_input, raw_text, structured_content, artifact>>
    /\ UNCHANGED <<ctl_vars, cov_vars, ext_vars, par_vars, ocr_vars>>

\* self.convert_to_yml(skills_data, output_file)
WfConvert ==
    /\ wf_pc = "convert"
    /\ \E io_ok \in BOOLEAN :
          LET c == convert_to_yml(wf_skills, io_ok)
          IN  IF c.raised
              THEN /\ WfReturn("False")
                   /\ UNCHANGED artifact
              ELSE /\ artifact' = c.yml
                   /\ wf_pc' = "validate"
                   /\ UNCHANGED wf_ret
    /\ wf_events' = Append(wf_events, "serialize")
    /\ UNCHANGED <<wf_input, raw_text, structured_content, wf_skills>>
    /\ UNCHANGED <<ctl_vars, cov_vars, ext_vars, par_vars, ocr_vars>>

\* if self.validate_yml_structure(yml_path): return True, else: return False
WfValidate ==
    /\ wf_pc = "validate"
    /\ WfReturn(IF validate_yml_structure(artifact) THEN "True" ELSE "False")
    /\ wf_events' = Append(wf_events, "validate")
    /\ UNCHANGED <<wf_input, raw_text, structured_content, wf_skills, artifact>>
    /\ UNCHANGED <<ctl_vars, cov_vars, ext_vars, par_vars, ocr_vars>>

-----------------------------------------------------------------------------
(* Extraction of the JSON payload from the reply of the backend *)

\* the characters a JSON document of the model is written with: braces, the
\* comma, and one letter for each member (s: the skills list, g: the groups
\* key, n: a group id, t: the members of a group)
JsonChars == {"{", "}", ",", "s", "g", "n", "t"}

\* "BQ" stands for the backquote character
Fence     == <<"BQ", "BQ", "BQ">>
FenceJson == Fence \o <<"j", "s", "o", "n">>

\* an object with skills and a groups mapping of one group
P_skillset == <<"{", "s", ",", "g", "{", "n", "{", "t", "}", "}", "}">>
\* an object with skills only, an empty object, a cut-off object
P_flat     == <<"{", "s", "}">>
P_empty    == <<"{", "}">>
P_cut      == <<"{", "s", ",", "g", "{">>

ExtPayloads == {P_skillset, P_flat, P_empty, P_cut}

ExtForms ==
    {"bare", "bare_padded", "fenced_json", "fenced_json_spaces", "fenced_plain",
     "prose", "prose_fenced"}

\* the text of a reply that carries payload p in the given form
ReplyText(form, p) ==
    IF form = "bare" THEN p
    ELSE IF form = "bare_padded" THEN <<"\n">> \o p \o <<" ", "\n">>
    ELSE IF form = "fenced_json" THEN FenceJson \o <<"\n">> \o p \o <<"\n">> \o Fence
    ELSE IF form = "fenced_json_spaces" THEN FenceJson \o <<" ">> \o p \o <<" ">> \o Fence
    ELSE IF form = "fenced_plain" THEN Fence \o <<"\n">> \o p \o <<"\n">> \o Fence
    ELSE IF form = "prose" THEN <<"x", "y", " ">> \o p \o <<" ", "x", "y">>
    ELSE <<"x", "y", "\n">> \o FenceJson \o <<"\n">> \o p \o <<"\n">> \o Fence
             \o <<"\n", "x", "y">>

NotSpace(c) == c \notin SpaceChars

\* the number of open braces after the first i characters of u
RECURSIVE Depth(_, _)
Depth(u, i) ==
    IF i = 0 THEN 0
    ELSE Depth(u, i - 1) + (IF u[i] = "{" THEN 1 ELSE IF u[i] = "}" THEN -1 ELSE 0)

\* json.loads accepts the text: one object, whitespace allowed around and in it
IsJson(t) ==
    LET u == Strip(t)
    IN  /\ u # <<>>
        /\ u[1] = "{"
        /\ \A i \in 1..Len(u) : u[i] \in JsonChars \/ u[i] \in SpaceChars
        /\ \A i \in 1..(Len(u) - 1) : Depth(u, i) > 0
        /\ Depth(u, Len(u)) = 0

\* json.loads(t): the value (written without whitespace), or JSONDecodeError
json_loads(t) ==
    IF IsJson(t) THEN [ok |-> TRUE, value |-> SelectSeq(t, NotSpace)]
    ELSE [ok |-> FALSE, value |-> <<>>]

\* the least position >= from where p occurs in t, or 0
Find(t, p, from) ==
    LET hits == {i \in from..(Len(t) - Len(p) + 1) : SubSeq(t, i, i + Len(p) - 1) = p}
    IN  IF hits = {} THEN 0 ELSE CHOOSE i \in hits : \A j \in hits : i <= j

EndsWith(t, p) == Len(p) <= Len(t) /\ SubSeq(t, Len(t) - Len(p) + 1, Len(t)) = p

\* t[a:-b] for a, b > 0
Slice(t, a, b) == SubSeq(t, a + 1, Len(t) - b)

\* outcome of an extractor: it returned the parsed value, returned None, or
\* raised
ExtReturned(v) == [state |-> "returned", value |-> v]
ExtNone        == [state |-> "none", value |-> <<>>]
ExtRaised      == [state |-> "raised", value |-> <<>>]
ExtPending     == [state |-> "pending", value |-> <<>>]
ExtNotCalled   == [state |-> "idle", value |-> <<>>]

\* AI_Profiler.generate_skills: the fence around the whole reply is cut off,
\* then json.loads; an exception makes the function return None
generate_skills_parse(reply) ==
    LET content == Strip(reply)
        inner == IF IsPrefix(FenceJson, content) /\ EndsWith(content, Fence)
                 THEN Strip(Slice(content, 7, 3))
                 ELSE IF IsPrefix(Fence, content) /\ EndsWith(content, Fence)
                 THEN Strip(Slice(content, 3, 3))
                 ELSE content
        r == json_loads(inner)
    IN  IF r.ok THEN ExtReturned(r.value) ELSE ExtNone

\* SkillValidator.call_llm_for_refinement: the search for a json fence
\* takes the text between the first fence opening with the json tag and the
\* next fence, without the whitespace at its ends; without a match the whole
\* reply is parsed
call_llm_for_refinement_parse(reply) ==
    LET content == Strip(reply)
        i == Find(content, FenceJson, 1)
        rest == DropSpaces(SubSeq(content, i + 7, Len(content)))
        j == Len(content) - Len(rest) + 1
        k == IF i = 0 THEN 0 ELSE Find(content, Fence, j)
        json_content == IF k # 0 THEN DropTrailingSpaces(SubSeq(content, j, k - 1))
                        ELSE content
        r == json_loads(json_content)
    IN  IF r.ok THEN ExtReturned(r.value) ELSE ExtNone

\* skill_agent.generate_skill: json.loads of the reply; on JSONDecodeError the
\* text between a json fence opening followed by a newline and the next
\* newline followed by a fence, or else the text of the non-greedy brace
\* match (from the first opening brace to the first closing brace after it);
\* a second JSONDecodeError, or no match at all, is raised to the caller
generate_skill_parse(reply) ==
    LET r1 == json_loads(reply)
        i == Find(reply, FenceJson \o <<"\n">>, 1)
        k == IF i = 0 THEN 0 ELSE Find(reply, <<"\n">> \o Fence, i + 8)
        r2 == json_loads(SubSeq(reply, i + 8, k - 1))
        b == Find(reply, <<"{">>, 1)
        e == IF b = 0 THEN 0 ELSE Find(reply, <<"}">>, b + 1)
        r3 == json_loads(SubSeq(reply, b, e))
    IN  IF r1.ok THEN ExtReturned(r1.value)
        ELSE IF k # 0 THEN (IF r2.ok THEN ExtReturned(r2.value) ELSE ExtRaised)
        ELSE IF e # 0 THEN (IF r3.ok THEN ExtReturned(r3.value) ELSE ExtRaised)
        ELSE ExtRaised

Extractors == {"generate_skills", "call_llm_for_refinement", "generate_skill"}

ExtInit ==
    /\ ext_reply \in {[form |-> f, payload |-> p, text |-> ReplyText(f, p)] :
                         f \in ExtForms, p \in ExtPayloads}
    /\ ext_out = [x \in Extractors |-> ExtPending]

ExtIdle ==
    /\ ext_reply = [form |-> "bare", payload |-> <<>>, text |-> <<>>]
    /\ ext_out = [x \in Extractors |-> ExtNotCalled]

\* the reply reaches generate_skills
ExtractInGenerateSkills ==
    /\ ext_out["generate_skills"] = ExtPending
    /\ ext_out' = [ext_out EXCEPT
                      !["generate_skills"] = generate_skills_parse(ext_reply.text)]
    /\ UNCHANGED <<ext_reply, ctl_vars, cov_vars, wf_vars, par_vars, ocr_vars>>

\* the reply reaches call_llm_for_refinement
ExtractInRefinement ==
    /\ ext_out["call_llm_for_refinement"] = ExtPending
    /\ ext_out' = [ext_out EXCEPT
                      !["call_llm_for_refinement"] =
                          call_llm_for_refinement_parse(ext_reply.text)]
    /\ UNCHANGED <<ext_reply, ctl_vars, cov_vars, wf_vars, par_vars, ocr_vars>>

\* the reply reaches generate_skill
ExtractInGenerateSkill ==
    /\ ext_out["generate_skill"] = ExtPending
    /\ ext_out' = [ext_out EXCEPT
                      !["generate_skill"] = generate_skill_parse(ext_reply.text)]
    /\ UNCHANGED <<ext_reply, ctl_vars, cov_vars, wf_vars, par_vars, ocr_vars>>

-----------------------------------------------------------------------------
(* Two AI_Profiler instances, each running run_workflow on its own document *)

Instances == {1, 2}

\* "mid_results" is the default of the constructor
Dirs == {"mid_results", "mid_other"}

ParDocs == {PageMarker(1) \o T_abc, PageMarker(1) \o T_xy \o PageMarker(2) \o T_abc}

NoBlocksFile == [by |-> 0, data |-> <<>>]
NoSkillsFile == [by |-> 0, data |-> NoneValue]

ParInit ==
    /\ par_dir \in [Instances -> Dirs]
    /\ par_doc \in [Instances -> ParDocs]
    /\ par_pc = [i \in Instances |-> "structure"]
    /\ par_local = [i \in Instances |-> [blocks |-> <<>>, skills |-> NoneValue]]
    /\ par_files = [d \in Dirs |-> [structured_content |-> NoBlocksFile,
                                    identified_skills |-> NoSkillsFile]]

ParIdle ==
    /\ par_dir = [i \in Instances |-> "mid_results"]
    /\ par_doc = [i \in Instances |-> <<>>]
    /\ par_pc = [i \in Instances |-> "idle"]
    /\ par_local = [i \in Instances |-> [blocks |-> <<>>, skills |-> NoneValue]]
    /\ par_files = [d \in Dirs |-> [structured_content |-> NoBlocksFile,
                                    identified_skills |-> NoSkillsFile]]

ParOthers == UNCHANGED <<par_dir, par_doc, ctl_vars, cov_vars, wf_vars, ext_vars, ocr_vars>>

\* clean_and_structure_content of instance i: the blocks are written to
\* structured_content.json in the instance's mid_results_dir and returned
ParStructure(i) ==
    /\ par_pc[i] = "structure"
    /\ LET blocks == clean_and_structure_content(par_doc[i])
       IN  /\ par_files' = [par_files EXCEPT ![par_dir[i]].structured_content =
                                                [by |-> i, data |-> blocks]]
           /\ par_local' = [par_local EXCEPT ![i].blocks = blocks]
    /\ par_pc' = [par_pc EXCEPT ![i] = "generate"]
    /\ ParOthers

\* generate_skills of instance i: a parsed payload is written to
\* identified_skills.json in the instance's mid_results_dir and returned; a
\* failure returns None, on which convert_to_yml raises and the run ends
ParGenerate(i) ==
    /\ par_pc[i] = "generate"
    /\ \E reply \in WfReplies :
          LET skills == generate_skills(reply, TRUE)
          IN  IF skills.kind = "none"
              THEN /\ par_pc' = [par_pc EXCEPT ![i] = "done"]
                   /\ UNCHANGED <<par_files, par_local>>
              ELSE /\ par_files' = [par_files EXCEPT ![par_dir[i]].identified_skills =
                                                       [by |-> i, data |-> skills]]
                   /\ par_local' = [par_local EXCEPT ![i].skills = skills]
                   /\ par_pc' = [par_pc EXCEPT ![i] = "convert"]
    /\ ParOthers

\* convert_to_yml and validate_yml_structure of instance i, on the output
\* file named after its own document
ParFinish(i) ==
    /\ par_pc[i] = "convert"
    /\ par_pc' = [par_pc EXCEPT ![i] = "done"]
    /\ UNCHANGED <<par_files, par_local>>
    /\ ParOthers

-----------------------------------------------------------------------------
(* OCR_client.extract_pdf_to_markdown *)

OcrInputs == [url_ok : BOOLEAN, token_ok : BOOLEAN]

\* what requests.post and the checks of its response come to
PostOutcomes == {"network_error", "http_error", "api_error", "no_task_id", "created"}

TaskStates == {"pending", "running", "done", "failed"}

\* what the remote service does with one status query: the request fails or
\* is answered, and the answer has a code, maybe an err_msg, a state and
\* maybe a full_zip_url
StatusReplies ==
    [query_ok : BOOLEAN, code_ok : BOOLEAN, err_msg : BOOLEAN, state : TaskStates,
     zip_url : BOOLEAN]

NoReply ==
    [query_ok |-> TRUE, code_ok |-> TRUE, err_msg |-> FALSE, state |-> "none",
     zip_url |-> FALSE]

\* the remote reports state done or failed, an err_msg, or the status query
\* fails
ReportsEnd(remote) ==
    \/ ~remote.query_ok
    \/ ~remote.code_ok
    \/ remote.err_msg
    \/ remote.state \in {"done", "failed"}

\* _get_task_status: the answer, or the error response with code 1 and empty
\* data when the request raises
get_task_status(remote) ==
    IF remote.query_ok
    THEN [code_ok |-> remote.code_ok, err_msg |-> remote.err_msg,
          state |-> remote.state, zip_url |-> remote.zip_url]
    ELSE [code_ok |-> FALSE, err_msg |-> FALSE, state |-> "none", zip_url |-> FALSE]

\* poll_outcome that polls again after a status response with a code other
\* than 0
poll_outcome_repoll(task_status, dl_ok) ==
    IF ~task_status.code_ok THEN "sleep"
    ELSE IF task_status.err_msg THEN "raise"
    ELSE IF task_status.state = "done"
         THEN IF ~task_status.zip_url THEN "raise"
              ELSE IF dl_ok THEN "return" ELSE "raise"
    ELSE IF task_status.state = "failed" THEN "raise"
    ELSE "sleep"

\* the body of the polling loop after the status query: raise, download and
\* return (or raise when the download fails), or sleep and poll again
poll_outcome(task_status, dl_ok) ==
    IF ~task_status.code_ok THEN "raise"
    ELSE IF task_status.err_msg THEN "raise"
    ELSE IF task_status.state = "done"
         THEN IF ~task_status.zip_url THEN "raise"
              ELSE IF dl_ok THEN "return" ELSE "raise"
    ELSE IF task_status.state = "failed" THEN "raise"
    ELSE "sleep"

OcrInit ==
    /\ ocr_input \in OcrInputs
    /\ ocr_pc = "start"
    /\ ocr_polls = 0
    /\ ocr_reply = NoReply
    /\ ocr_out = "none"
    /\ ocr_events = <<>>

OcrIdle ==
    /\ ocr_input = [url_ok |-> FALSE, token_ok |-> FALSE]
    /\ ocr_pc = "idle"
    /\ ocr_polls = 0
    /\ ocr_reply = NoReply
    /\ ocr_out = "none"
    /\ ocr_events = <<>>

OcrRaise ==
    /\ ocr_pc' = "raised"
    /\ ocr_out' = "raised"

\* the checks of the argument and the token, then the request that creates
\* the task and the checks of its response
OcrCreate ==
    /\ ocr_pc = "start"
    /\ IF ~ocr_input.url_ok \/ ~ocr_input.token_ok
       THEN /\ OcrRaise
            /\ UNCHANGED ocr_events
       ELSE \E post \in PostOutcomes :
               /\ ocr_events' = Append(ocr_events, "post")
               /\ IF post = "created"
                  THEN /\ ocr_pc' = "poll"
                       /\ UNCHANGED ocr_out
                  ELSE OcrRaise
    /\ UNCHANGED <<ocr_input, ocr_polls, ocr_reply>>
    /\ UNCHANGED <<ctl_vars, cov_vars, wf_vars, ext_vars, par_vars>>

\* one iteration of the while loop: the status query, the checks of the
\* response, then the download and the return, or time.sleep and the next
\* iteration.  The remote reports the end of the task at the latest on
\* query MaxPolls.
OcrPoll ==
    /\ ocr_pc = "poll"
    /\ ocr_polls < MaxPolls
    /\ \E remote \in StatusReplies, dl_ok \in BOOLEAN :
          /\ ~ReportsEnd(remote) => ocr_polls + 1 < MaxPolls
          /\ ocr_reply' = remote
          /\ LET task_status == get_task_status(remote)
                 outcome == poll_outcome(task_status, dl_ok)
                 query == IF remote.query_ok THEN "query" ELSE "query_failed"
                 downloads == /\ task_status.code_ok
                              /\ ~task_status.err_msg
                              /\ task_status.state = "done"
                              /\ task_status.zip_url
             IN  IF outcome = "sleep"
                 THEN /\ ocr_events' = ocr_events \o <<query, "sleep">>
                      /\ UNCHANGED <<ocr_pc, ocr_out>>
                 ELSE IF outcome = "return"
                 THEN /\ ocr_events' = ocr_events \o <<query, "download">>
                      /\ ocr_pc' = "returned"
                      /\ ocr_out' = "path"
                 ELSE /\ ocr_events' = ocr_events \o (IF downloads THEN <<query, "download">>
                                                        ELSE <<query>>)
                      /\ OcrRaise
    /\ ocr_polls' = ocr_polls + 1
    /\ UNCHANGED ocr_input
    /\ UNCHANGED <<ctl_vars, cov_vars, wf_vars, ext_vars, par_vars>>

-----------------------------------------------------------------------------
(* Specifications *)

\* validate_and_refine_skills, from its call to its return or exception
Init == CtlInit /\ CovIdle /\ WfIdle /\ ExtIdle /\ ParIdle /\ OcrIdle
Next == Validate \/ Refine \/ LoopExit
Spec == Init /\ [][Next]_vars
\* the function runs to its end: no step of it waits on anything but the
\* blocking calls it makes, which return or raise
FairSpec == Spec /\ WF_vars(Next)

\* one direct call of calculate_coverage
InitCoverage == CtlIdle /\ CovInit /\ WfIdle /\ ExtIdle /\ ParIdle /\ OcrIdle
CovNext == CalcCoverage
SpecCoverage == InitCoverage /\ [][CovNext]_vars

\* one run of run_workflow
WfNext == WfExtract \/ WfStructure \/ WfGenerate \/ WfConvert \/ WfValidate
InitWorkflow == CtlIdle /\ CovIdle /\ WfInit /\ ExtIdle /\ ParIdle /\ OcrIdle
SpecWorkflow == InitWorkflow /\ [][WfNext]_vars

\* one reply of the backend given to each of the three extractors
ExtNext == ExtractInGenerateSkills \/ ExtractInRefinement \/ ExtractInGenerateSkill
InitExtract == CtlIdle /\ CovIdle /\ WfIdle /\ ExtInit /\ ParIdle /\ OcrIdle
SpecExtract == InitExtract /\ [][ExtNext]_vars

\* two instances, their steps interleaved in any order
ParNext == \E i \in Instances : ParStructure(i) \/ ParGenerate(i) \/ ParFinish(i)
InitParallel == CtlIdle /\ CovIdle /\ WfIdle /\ ExtIdle /\ ParInit /\ OcrIdle
SpecParallel == InitParallel /\ [][ParNext]_vars

\* one call of extract_pdf_to_markdown
InitOcr == CtlIdle /\ CovIdle /\ WfIdle /\ ExtIdle /\ ParIdle /\ OcrInit
OcrNext == OcrCreate \/ OcrPoll
SpecOcr == InitOcr /\ [][OcrNext]_vars
\* every request is answered or fails, and time.sleep returns
FairSpecOcr == SpecOcr /\ WF_vars(OcrNext)

-----------------------------------------------------------------------------
(* Properties of validate_and_refine_skills *)

CallIndexes == {i \in 1..Len(events) : events[i].op = "call"}
CallCount   == Cardinality(CallIndexes)
Terminated  == pc \in {"returned", "raised"}

\* the candidate of the most recent generation: the last refinement result,
\* or the caller's candidate when no refinement call was made
LastGenerated ==
    IF CallIndexes = {} THEN skills_data
    ELSE events[CHOOSE i \in CallIndexes : \A j \in CallIndexes : j <= i].cand

\* a generation that yields None or an empty payload
FailedGeneration(c) == c.kind = "none" \/ c = EmptyDict

InvokedWithZero ==
    \/ max_retries_arg.none /\ self_max_retries = 0
    \/ ~max_retries_arg.none /\ max_retries_arg.v = 0

\* C1: for every sequence of scorer and generator outcomes the controller
\* ends (it returns or raises) and it never makes more than max_retries
\* calls of call_llm_for_refinement.
C1_TerminatesWithinBudget == [](CallCount <= max_retries) /\ <>Terminated

C1_Witness == Terminated /\ max_retries >= 2 /\ CallCount = max_retries

\* C2: a scoring that yields coverage >= threshold is the last thing the
\* controller does: it has returned exactly the scored candidate and no
\* generative call (or any other event) follows that scoring.
C2_AcceptStopsAtOnce ==
    \A i \in 1..Len(events) :
        (events[i].op = "score" /\ RatioGE(events[i].cov, threshold))
            => /\ i = Len(events)
               /\ pc = "returned"
               /\ result = events[i].cand
               /\ result = current_skills

C2_Witness ==
    /\ pc = "returned"
    /\ exit_via = "accepted"
    /\ events # <<>>
    /\ events[Len(events)].op = "score"
    /\ max_retries >= 2

\* C3: invoked with max_retries = 0 (as argument, or as the validator's
\* max_retries when the argument is omitted) the controller makes no
\* refinement call and, once it has ended, has returned the initial candidate.
C3_ZeroRetriesNoCall ==
    InvokedWithZero
        => /\ CallCount = 0
           /\ pc # "while" => (pc = "returned" /\ result = skills_data)

C3_Witness ==
    /\ ~max_retries_arg.none
    /\ max_retries_arg.v = 0
    /\ self_max_retries > 0
    /\ pc = "returned"

\* C4: the candidate the controller returns has been scored by
\* validate_skills before the return.
C4_ReturnedCandidateWasScored ==
    pc = "returned"
        => \E i \in 1..Len(events) : events[i].op = "score" /\ events[i].cand = result

\* C5: when the loop ends because the retry budget is used up, the controller
\* has returned normally, and the value returned is the current candidate,
\* which is the most recently generated one and is neither None nor empty.
C5_ExhaustedReturnsCurrent ==
    exit_via = "exhausted"
        => /\ pc = "returned"
           /\ result = current_skills
           /\ result = LastGenerated
           /\ ~FailedGeneration(result)

C5_Witness ==
    /\ exit_via = "exhausted"
    /\ retry_count = max_retries
    /\ CallCount >= 2
    /\ ~RatioGE(coverage, threshold)
    /\ result # skills_data

C7_ScorerFailureNotPropagated ==
    /\ pc # "raised"
    /\ \A i \in 1..Len(events) : events[i].op # "score_raised"

\* C8 as stated: every call of call_llm_for_refinement is preceded by a
\* delay made since the previous generation attempt.
C8_DelayBeforeEveryCall ==
    \A j \in CallIndexes :
        \E k \in 1..(j - 1) :
            /\ events[k].op = "sleep"
            /\ \A m \in (k + 1)..(j - 1) : events[m].op # "call"

\* C8 amended: between any two calls of call_llm_for_refinement there is a
\* delay of SleepSeconds; the first call is preceded by none.
C8_DelayBetweenCalls ==
    /\ \A i \in CallIndexes : \A j \in CallIndexes :
          i < j => \E k \in (i + 1)..(j - 1) :
                      events[k] = SleepEvent(SleepSeconds)
    /\ \A j \in CallIndexes :
          (\A i \in CallIndexes : j <= i)
              => \A k \in 1..(j - 1) : events[k].op # "sleep"

C8_Witness == CallCount >= 3 /\ events[Len(events)].op = "call"

\* the candidates that may be current: the caller's, or the result of a
\* generation that did not fail
UsableCandidates ==
    {skills_data} \cup {events[j].cand : j \in {k \in CallIndexes :
                                                  ~FailedGeneration(events[k].cand)}}

-----------------------------------------------------------------------------
(* Properties of validate_skills *)

\* the scorings of a candidate with skills against a content file whose
\* block list is empty
EmptyContentScorings ==
    {i \in 1..Len(events) :
        /\ events[i].op = "score"
        /\ IsEmptyContent(load_structured_content(content_file))
        /\ load_skills(events[i].cand) # <<>>}

\* C13 as stated: for empty content blocks and a non-empty skill list,
\* validate_skills and get_coverage_metrics give coverage 0.0 and
\* is_valid = False, whatever the threshold.
C13_EmptyContentNeverValid ==
    \A i \in EmptyContentScorings :
        /\ events[i].cov = Zero
        /\ ~validate_skills(content_file, events[i].cand, threshold).is_valid
        /\ ~get_coverage_metrics(content_file, events[i].cand).is_valid
        /\ i = Len(events) => exit_via # "accepted"

\* C13 amended: for empty content blocks and a non-empty skill list the
\* coverage is 0.0 and is_valid is 0.0 >= threshold: False for every
\* positive threshold (so for get_coverage_metrics, whose threshold is 0.9)
\* and True for threshold 0, where the controller accepts the candidate.
C13_EmptyContentValidIffThresholdZero ==
    \A i \in EmptyContentScorings :
        LET v == validate_skills(content_file, events[i].cand, threshold)
            g == get_coverage_metrics(content_file, events[i].cand)
        IN  /\ events[i].cov = Zero
            /\ ~v.raised /\ v.coverage = Zero
            /\ v.is_valid <=> (threshold[1] <= 0)
            /\ ~g.raised /\ g.coverage = Zero /\ ~g.is_valid
            /\ i = Len(events) => ((exit_via = "accepted") <=> (threshold[1] <= 0))

C13_Witness ==
    /\ EmptyContentScorings # {}
    /\ content_file.ok
    /\ threshold = <<9, 10>>
    /\ pc = "refine"

-----------------------------------------------------------------------------
(* Properties of run_workflow *)

\* C9: in one run the generated SkillSet is scored by the Coverage Scorer
\* before it is serialized, and the Serializer starts only after the
\* Generator has produced a SkillSet.
C9_ScoredBeforeSerialized ==
    \A i \in 1..Len(wf_events) :
        wf_events[i] = "serialize"
            => /\ \E j \in 1..(i - 1) : wf_events[j] = "score"
               /\ wf_skills.kind # "none"

\* what convert_to_yml makes of the skills list of a SkillSet
SerializedSkills(data) ==
    [i \in 1..Len(data.skills) |-> YmlSkill(i - 1, data.skills[i])]

\* the ids of a serialized skills list
SkillIds(yml_skills) ==
    UNION {{yml_skills[i][j].id.n : j \in 1..Len(yml_skills[i])} :
           i \in 1..Len(yml_skills)}

\* some group refers to an id that no skill has
HasDanglingRef(yml_skills, groups) ==
    \E g \in 1..Len(groups.items) :
        /\ groups.items[g].refs_is_list
        /\ \E k \in 1..Len(groups.items[g].refs) :
              groups.items[g].refs[k] \notin SkillIds(yml_skills)

\* the least number of skills of a group that the generation prompt asks for
MinGroupSize == 3

\* some group lists fewer than MinGroupSize skills
HasSmallGroup(groups) ==
    \E g \in 1..Len(groups.items) :
        /\ groups.items[g].refs_is_list
        /\ Len(groups.items[g].refs) < MinGroupSize

\* generate_skills handed a SkillSet to run_workflow
HandedBack == wf_pc = "convert" /\ wf_skills.kind = "dict"

\* C15: a SkillSet in which a group refers to a skill id that does not exist
\* is rejected: generate_skills does not hand it back, and run_workflow does
\* not return True for an artifact that contains it.
C15_DanglingRefRejected ==
    /\ HandedBack
          => ~HasDanglingRef(SerializedSkills(wf_skills), wf_skills.groups)
    /\ (artifact.written /\ HasDanglingRef(artifact.skills, artifact.groups))
          => wf_ret # "True"

\* C16: a SkillSet with a group of fewer than 3 skill references is
\* rejected: generate_skills does not hand it back, and run_workflow does not
\* return True for an artifact that contains it.
C16_SmallGroupRejected ==
    /\ HandedBack => ~HasSmallGroup(wf_skills.groups)
    /\ (artifact.written /\ HasSmallGroup(artifact.groups)) => wf_ret # "True"

\* C17: no two entries of the skills section that convert_to_yml wrote
\* have the same id.
C17_SkillIdsUnique ==
    artifact.written
        => \A i \in 1..Len(artifact.skills) : \A j \in 1..Len(artifact.skills) :
              \A a \in 1..Len(artifact.skills[i]) : \A b \in 1..Len(artifact.skills[j]) :
                 (i # j \/ a # b) => artifact.skills[i][a].id # artifact.skills[j][b].id

\* C18: a generation that extracted no payload (or whose backend call
\* failed) raises: generate_skills never hands None back to run_workflow,
\* which would go on to serialization with it.
C18_GenerationFailureRaises ==
    wf_pc = "convert" => wf_skills.kind # "none"

\* the structurer has run and has yielded no block
StructuredEmpty ==
    /\ structured_content = <<>>
    /\ \E i \in 1..Len(wf_events) : wf_events[i] = "structure"
    /\ wf_pc # "done" \/ \E i \in 1..Len(wf_events) : wf_events[i] = "generate"

\* C20: when clean_and_structure_content yields no block, generate_skills
\* makes no request to the backend, no artifact is written, and run_workflow
\* ends at the generation step with False.
C20_EmptyBlocksFailAtGeneration ==
    StructuredEmpty
        => /\ \A i \in 1..Len(wf_events) : wf_events[i] # "call"
           /\ ~artifact.written
           /\ wf_pc \in {"generate", "done"}
           /\ wf_ret # "True"

\* clean_and_structure_content has returned in this run
StructurerReturned ==
    /\ \E i \in 1..Len(wf_events) : wf_events[i] = "structure"
    /\ wf_pc # "done" \/ \E i \in 1..Len(wf_events) : wf_events[i] = "generate"

\* the texts of the document's pages, cleaned, without the blank ones
CleanPages ==
    SelectSeq([i \in 1..Len(wf_input.pages) |-> Strip(CollapseSpaces(wf_input.pages[i]))],
              LAMBDA pg : pg # <<>>)

\* C21: the blocks clean_and_structure_content returns are the non-blank
\* pages in document order, numbered 1, 2, ..., n without gap or repeat, and
\* no block's content is empty or has whitespace at its ends.
C21_BlocksNumberedInOrder ==
    StructurerReturned
        => /\ Len(structured_content) = Len(CleanPages)
           /\ \A i \in 1..Len(structured_content) :
                 /\ structured_content[i].page_number = i
                 /\ structured_content[i].content = CleanPages[i]
                 /\ structured_content[i].content # <<>>
                 /\ Strip(structured_content[i].content) = structured_content[i].content

C21_Witness ==
    /\ StructurerReturned
    /\ Len(wf_input.pages) = 2
    /\ Strip(wf_input.pages[1]) = <<>>
    /\ Len(structured_content) = 1
    /\ structured_content[1].page_number = 1

\* convert_to_yml applied to the artifact of this run, loaded again
Reserialized == convert_to_yml(safe_load(artifact), TRUE)

\* C22: an artifact that passed validate_yml_structure, loaded and given to
\* convert_to_yml again, yields the same document, and that document passes
\* validate_yml_structure.
C22_RoundTripIdentical ==
    wf_ret = "True"
        => /\ ~Reserialized.raised
           /\ Reserialized.yml = artifact
           /\ validate_yml_structure(Reserialized.yml)

C22_Witness ==
    /\ wf_ret = "True"
    /\ Len(artifact.skills) >= 3
    /\ Len(artifact.groups.items) >= 2
    /\ Reserialized.yml = artifact

\* extraction has run and has yielded no text: None or the empty string
ExtractedNothing ==
    /\ wf_events # <<>>
    /\ extract_text_from_ppt(wf_input).none \/ extract_text_from_ppt(wf_input).text = <<>>

\* C24: when extraction yields no text, run_workflow returns False at once:
\* extraction is not tried again, neither clean_and_structure_content nor
\* generate_skills runs, and no artifact is written.
C24_NoTextEndsRun ==
    ExtractedNothing
        => /\ wf_pc = "done"
           /\ wf_ret = "False"
           /\ wf_events = <<"extract">>
           /\ structured_content = <<>>
           /\ wf_skills = NoneValue
           /\ ~artifact.written

C24_Witness ==
    /\ ExtractedNothing
    /\ wf_input.ext = ".pptx"
    /\ extract_text_from_ppt(wf_input).none
    /\ wf_ret = "False"

\* the artifact is on disk with both sections, skills a sequence of
\* single-key mappings, groups a mapping whose entries each have type, target
\* and a sequence-valued skills
ArtifactWellFormed ==
    /\ artifact.written
    /\ \A i \in 1..Len(artifact.skills) : Len(artifact.skills[i]) = 1
    /\ artifact.groups.kind = "dict"
    /\ \A g \in 1..Len(artifact.groups.items) :
          /\ {"type", "target", "skills"} \subseteq artifact.groups.items[g].keys
          /\ artifact.groups.items[g].refs_is_list

\* the run has reached the validation of the artifact it wrote
ValidationRan ==
    /\ Len(wf_events) >= 2
    /\ wf_events[Len(wf_events)] = "validate"
    /\ wf_events[Len(wf_events) - 1] = "serialize"

\* C25: run_workflow returns True only when the artifact it wrote in this run
\* was validated after the write and is well formed; a run whose validation
\* fails returns False.
C25_TrueOnlyAfterValidation ==
    /\ wf_ret = "True" => ValidationRan /\ ArtifactWellFormed
    /\ ValidationRan /\ ~ArtifactWellFormed => wf_ret = "False"

C25_Witness ==
    /\ wf_ret = "True"
    /\ ValidationRan
    /\ ArtifactWellFormed
    /\ artifact.groups.items # <<>>

C25_WitnessRejected ==
    /\ ValidationRan
    /\ ~ArtifactWellFormed
    /\ wf_ret = "False"

\* the structured-content file is well formed and has at least one block
ContentFileUsable == content_file.ok /\ content_file.blocks # <<>>

\* C26: on a well-formed structured-content file with at least one block and
\* a non-empty skill list, validate_skills returns (is_valid, coverage)
\* without raising, and is_valid equals (coverage >= threshold).
C26_UsableInputIsScored ==
    ContentFileUsable
        => \A i \in 1..Len(events) :
              events[i].op \in {"score", "score_raised"}
                 /\ load_skills(events[i].cand) # <<>>
              => /\ events[i].op = "score"
                 /\ validate_skills(content_file, events[i].cand, threshold).is_valid
                        = RatioGE(events[i].cov, threshold)

\* generate_skills was called and returned None
GenerationFailed ==
    /\ "call" \in Range(wf_events)
    /\ wf_skills = NoneValue

\* C29: run_workflow never raises. A run that ends anywhere but after a
\* passed validation returns False, whichever stage failed; and when
\* generate_skills has failed, the serialization that follows raises before
\* it writes, so no artifact is written and the run returns False.
C29_EveryFailureReturnsFalse ==
    /\ wf_pc = "done" => wf_ret \in {"True", "False"}
    /\ (wf_pc = "done" /\ ~(ValidationRan /\ ArtifactWellFormed)) => wf_ret = "False"
    /\ GenerationFailed => ~artifact.written
    /\ (GenerationFailed /\ "serialize" \in Range(wf_events))
          => wf_pc = "done" /\ wf_ret = "False"

C29_Witness ==
    /\ GenerationFailed
    /\ wf_events[Len(wf_events)] = "serialize"
    /\ wf_pc = "done"
    /\ wf_ret = "False"
    /\ ~artifact.written

-----------------------------------------------------------------------------
(* Properties of calculate_coverage *)

\* C10: a coverage that calculate_coverage returns lies in [0, 1]: the
\* number of covered positions is at most the number of content tokens.
C10_CoverageInUnitInterval ==
    (cov_pc = "done" /\ ~cov_out.raised)
        => /\ cov_out.value[2] >= 1
           /\ cov_out.value[1] >= 0
           /\ cov_out.value[1] <= cov_out.value[2]

C10_Witness ==
    /\ cov_pc = "done"
    /\ ~cov_out.raised
    /\ cov_out.value[2] >= 3
    /\ cov_out.value[1] = cov_out.value[2]

\* the covered positions and the coverage of calculate_coverage(cov_content, S)
\* for a str content with tokens
CoveredBy(S) == CoveredTokens(tokenize(preprocess(cov_content.text)), S)

\* the skill list of the call without its last skill
Shorter == SubSeq(cov_skills, 1, Len(cov_skills) - 1)

\* C11: for a fixed str content, adding a skill s to a skill list S never
\* removes a covered token position, so the coverage of S + [s] (the list of
\* the call that was made) is at least the coverage of S.
C11_CoverageMonotone ==
    (cov_pc = "done" /\ cov_content.type = "str" /\ cov_skills # <<>>)
        => LET less == calculate_coverage(cov_content, Shorter)
           IN  /\ ~cov_out.raised
               /\ ~less.raised
               /\ RatioGE(cov_out.value, less.value)
               /\ CoveredBy(Shorter) \subseteq CoveredBy(cov_skills)

C11_Witness ==
    /\ cov_pc = "done"
    /\ cov_content.type = "str"
    /\ Len(cov_skills) >= 2
    /\ LET less == calculate_coverage(cov_content, Shorter)
       IN  /\ less.value[1] >= 1
           /\ ~RatioGE(less.value, cov_out.value)
           /\ \E p \in CoveredBy(Shorter) :
                  p \notin CoveredBy(<<cov_skills[Len(cov_skills)]>>)

\* a str content that leaves no token after preprocess
NoTokens(c) == c.type = "str" /\ tokenize(preprocess(c.text)) = <<>>

\* C12: calculate_coverage returns exactly 0.0, and does not raise, whenever
\* the content is empty, or has no token after preprocessing, or the skill
\* list is empty.
C12_ZeroOnEmptyInput ==
    (cov_pc = "done"
        /\ (IsEmptyContent(cov_content) \/ NoTokens(cov_content) \/ cov_skills = <<>>))
        => cov_out = Returned(Zero)

C12_Witness ==
    /\ cov_pc = "done"
    /\ cov_content.text # <<>>
    /\ NoTokens(cov_content)
    /\ cov_skills # <<>>
    /\ cov_out = Returned(Zero)

\* the call of the scenario, with the blocks joined into one str or passed
\* as the list that load_structured_content returns
ExampleCall ==
    /\ cov_pc = "done"
    /\ cov_skills = ExampleSkills
    /\ cov_content \in {Str(ExampleContent), List(ExampleBlocks)}

\* C14 as stated: for the three blocks about stacks and queues and the two
\* skills "able to define a stack" and "able to define a queue", the coverage
\* that calculate_coverage computes is strictly between 0.0 and 1.0.
C14_ExampleStrictlyPartial ==
    ExampleCall
        => /\ ~cov_out.raised
           /\ 0 < cov_out.value[1]
           /\ cov_out.value[1] < cov_out.value[2]

\* C14 amended: for the three blocks joined into one str the coverage is
\* exactly 0.0 (none of the fifteen content tokens is marked: no word of
\* more than two letters of a skill is a content token); for the blocks
\* passed as a list the call raises.
C14_ExampleCoverageZero ==
    ExampleCall
        => IF cov_content.type = "str"
           THEN cov_out = Returned(<<0, 15>>)
           ELSE cov_out.raised

C14_Witness ==
    /\ ExampleCall
    /\ cov_content = Str(ExampleContent)
    /\ Len(tokenize(preprocess(cov_content.text))) = 15
    /\ cov_out.value[1] = 0

-----------------------------------------------------------------------------
(* Properties of the payload extraction *)

\* the extractors that have been given the reply
Applied == {x \in Extractors : ext_out[x] \notin {ExtPending, ExtNotCalled}}

\* C19: a well-formed SkillSet payload (an object with skills and a
\* non-empty groups mapping) is extracted from the reply in each of its three
\* forms: bare, inside a ```json fence, and embedded in prose.
C19_ThreeFormsExtracted ==
    (ext_reply.payload = P_skillset /\ ext_reply.form \in {"bare", "fenced_json", "prose"})
        => \A x \in Applied : ext_out[x] = ExtReturned(P_skillset)

-----------------------------------------------------------------------------
(* calculate_coverage and unigram matching *)

\* the normalized tokens of the skills that are longer than MinKeyLen
SkillKeyTokens(S) ==
    UNION {{tok \in Range(tokenize(preprocess(S[s]))) : Len(tok) > MinKeyLen} :
           s \in 1..Len(S)}

\* the content positions whose normalized token is such a skill token
UnigramMarked ==
    LET content_tokens == tokenize(preprocess(cov_content.text))
        key_tokens == SkillKeyTokens(cov_skills)
    IN  {p \in 1..Len(content_tokens) : content_tokens[p] \in key_tokens}

\* some two- or three-word phrase of a skill occurs in the content
MultiWordPhraseMatched ==
    \E s \in 1..Len(cov_skills) :
        \E ph \in Range(extract_key_phrases(cov_skills[s])) :
            /\ " " \in Range(ph)
            /\ PhrasePositions(tokenize(preprocess(cov_content.text)), ph) # {}

\* C27: for a str content with tokens and a non-empty skill list,
\* calculate_coverage is the fraction of content token positions whose
\* normalized token equals a normalized skill token longer than 2 characters;
\* the two- and three-word phrases mark no position beyond those.
C27_CoverageIsUnigramFraction ==
    (cov_pc = "done" /\ cov_content.type = "str" /\ cov_skills # <<>>
        /\ ~NoTokens(cov_content))
        => LET marked == UnigramMarked
           IN  /\ ~cov_out.raised
               /\ cov_out.value[1] = Cardinality(marked)
               /\ cov_out.value[2] = Len(tokenize(preprocess(cov_content.text)))
               /\ CoveredBy(cov_skills) = marked

C27_Witness ==
    /\ cov_pc = "done"
    /\ cov_content.type = "str"
    /\ MultiWordPhraseMatched
    /\ cov_out.value[1] = Cardinality(UnigramMarked)
    /\ cov_out.value[1] >= 2
    /\ cov_out.value[1] < cov_out.value[2]

-----------------------------------------------------------------------------
(* Properties of parallel instances *)

\* C23: two instances that process their documents in parallel share no
\* mutable state: while an instance runs, the intermediate results it wrote
\* (its content blocks, its candidate SkillSet) are still its own, not
\* overwritten by the other instance.
C23_NoSharedMutableState ==
    \A i \in Instances :
        /\ par_pc[i] \in {"generate", "convert"}
              => par_files[par_dir[i]].structured_content =
                     [by |-> i, data |-> par_local[i].blocks]
        /\ par_pc[i] = "convert"
              => par_files[par_dir[i]].identified_skills =
                     [by |-> i, data |-> par_local[i].skills]

-----------------------------------------------------------------------------
(* Properties of extract_pdf_to_markdown *)

OcrQueries == {i \in 1..Len(ocr_events) : ocr_events[i] \in {"query", "query_failed"}}

OcrTerminated == ocr_pc \in {"returned", "raised"}

\* the polling loop is left exactly when the remote reports the end of the
\* task, and a path is returned only for a task that is done
LeavesOnlyOnEnd ==
    ocr_polls >= 1
        => /\ OcrTerminated <=> ReportsEnd(ocr_reply)
           /\ ocr_pc = "returned"
                 => /\ ocr_reply.query_ok /\ ocr_reply.code_ok /\ ~ocr_reply.err_msg
                    /\ ocr_reply.state = "done"
                    /\ ocr_out = "path"

\* between two status queries there is a pause
PausesBetweenQueries ==
    \A i \in OcrQueries : \A j \in OcrQueries :
        i < j => \E k \in (i + 1)..(j - 1) : ocr_events[k] = "sleep"

\* a failed status query is the last request made, and the call has raised
FailedQueryAborts ==
    \A i \in OcrQueries :
        ocr_events[i] = "query_failed"
            => /\ i = Len(ocr_events)
               /\ ocr_pc = "raised"
               /\ ocr_out = "raised"

\* C30: extract_pdf_to_markdown eventually returns an output path or raises,
\* given that the remote task eventually reports state done or failed, an
\* err_msg, or a status-query failure; the polling loop leaves only on one of
\* those events, pauses between consecutive status queries, and a single
\* failed status query aborts the extraction instead of being polled again.
C30_PollingEnds ==
    /\ [](LeavesOnlyOnEnd /\ PausesBetweenQueries /\ FailedQueryAborts)
    /\ <>OcrTerminated

C30_Witness ==
    /\ ocr_pc = "returned"
    /\ ocr_out = "path"
    /\ ocr_polls >= 2
    /\ "sleep" \in Range(ocr_events)

C30_WitnessFailedQuery ==
    /\ ocr_pc = "raised"
    /\ ocr_polls >= 2
    /\ ocr_events[Len(ocr_events)] = "query_failed"

====
